---- MODULE Spec2Model ----
(***************************************************************************)
(* GDS to RIS converter (src/gds_to_ris.py).                               *)
(*                                                                         *)
(* Text is modelled by TLA+ strings, read character by character with      *)
(* SubSeq.  Every regular expression of the source is modelled by what the *)
(* Python matcher does with it: leftmost start position, greedy runs that  *)
(* give characters back, lazy groups that stop at the first place the rest *)
(* of the pattern matches, and the flags (MULTILINE, DOTALL) of each call. *)
(***************************************************************************)
EXTENDS Integers, Sequences, FiniteSets, TLC

VARIABLES pc, content, entries, i, entry, parsed, ris_lines, ris_entry,
          ris_entries, output

vars == <<pc, content, entries, i, entry, parsed, ris_lines, ris_entry,
          ris_entries, output>>

(***************************************************************************)
(* Bounds of the model.                                                    *)
(***************************************************************************)
\* number of chunks a modelled input file is made of
MaxFileChunks == 5
\* number of chunks a modelled entry text (input of parse_gds_entry) is made of
MaxEntryChunks == 3

(***************************************************************************)
(* Characters and strings.                                                 *)
(***************************************************************************)
NL == "\n"

At(s, p) == IF p >= 1 /\ p <= Len(s) THEN SubSeq(s, p, p) ELSE ""

\* \s of the re module and the characters str.strip() removes
IsSpace(c) == c \in {" ", "\n", "\t"}

\* \d of the re module
IsDigit(c) == c \in {"0", "1", "2", "3", "4", "5", "6", "7", "8", "9"}

\* a literal of a pattern matched at position p
StartsWithAt(s, p, lit) ==
    /\ p >= 1
    /\ p + Len(lit) - 1 <= Len(s)
    /\ SubSeq(s, p, p + Len(lit) - 1) = lit

SetMin(S) == CHOOSE x \in S : \A y \in S : x <= y
SetMax(S) == CHOOSE x \in S : \A y \in S : x >= y

\* greedy \s* from p: the position after the longest run of whitespace
RECURSIVE SkipSpaces(_, _)
SkipSpaces(s, p) ==
    IF p <= Len(s) /\ IsSpace(At(s, p)) THEN SkipSpaces(s, p + 1) ELSE p

\* greedy \d* from p: the position after the longest run of digits
RECURSIVE SkipDigits(_, _)
SkipDigits(s, p) ==
    IF p <= Len(s) /\ IsDigit(At(s, p)) THEN SkipDigits(s, p + 1) ELSE p

\* greedy [^\s]* from p: the position after the longest run of non-whitespace
RECURSIVE SkipNonSpaces(_, _)
SkipNonSpaces(s, p) ==
    IF p <= Len(s) /\ ~IsSpace(At(s, p)) THEN SkipNonSpaces(s, p + 1) ELSE p

\* lazy .+? followed by $ under MULTILINE, from a non-newline character at p:
\* the last position of the line p is on
RECURSIVE LineEnd(_, _)
LineEnd(s, p) ==
    IF p >= Len(s) \/ At(s, p + 1) = NL THEN p ELSE LineEnd(s, p + 1)

\* str.strip()
strip(s) ==
    LET keep == {p \in 1..Len(s) : ~IsSpace(At(s, p))}
    IN  IF keep = {} THEN "" ELSE SubSeq(s, SetMin(keep), SetMax(keep))

\* entry_text.split('\n')[0]
FirstLine(s) ==
    LET nls == {p \in 1..Len(s) : At(s, p) = NL}
    IN  IF nls = {} THEN s ELSE SubSeq(s, 1, SetMin(nls) - 1)

\* A match object: None, or the text of group(1).
NoMatch == [matched |-> FALSE, group |-> ""]
Match(g) == [matched |-> TRUE, group |-> g]

\* m.group(1).strip() if m else ""
GroupOrEmpty(m) == IF m.matched THEN strip(m.group) ELSE ""

\* re.search: the match at the leftmost start position that has one
Leftmost(starts) == IF starts = {} THEN 0 ELSE SetMin(starts)

(***************************************************************************)
(* parse_gds_entry: one match per field, each modelled from its pattern.   *)
(***************************************************************************)
\* title_match with \s* in place of \s+: no whitespace needed after the period
title_match_OptionalSpace(entry_text) ==
    LET line == FirstLine(entry_text)
        d    == SkipDigits(line, 1)
        w    == SkipSpaces(line, d + 1)
        ks   == {k \in 0..(w - (d + 1)) : d + 1 + k <= Len(line)}
    IN  IF d > 1 /\ At(line, d) = "." /\ ks # {}
        THEN Match(SubSeq(line, d + 1 + SetMax(ks), Len(line)))
        ELSE NoMatch

\* re.match(r'^\d+\.\s+(.+?)$', entry_text.split('\n')[0])
\* The line holds no newline, so the lazy group runs to the end of the line;
\* the greedy \s+ gives whitespace back until one character is left for it.
title_match(entry_text) ==
    LET line == FirstLine(entry_text)
        d    == SkipDigits(line, 1)
        w    == SkipSpaces(line, d + 1)
        ks   == {k \in 1..(w - (d + 1)) : d + 1 + k <= Len(line)}
    IN  IF d > 1 /\ At(line, d) = "." /\ ks # {}
        THEN Match(SubSeq(line, d + 1 + SetMax(ks), Len(line)))
        ELSE NoMatch

\* (?=Organism:|$) without MULTILINE: p is the position after the group
AbstractStop(s, p) ==
    \/ StartsWithAt(s, p, "Organism:")
    \/ p = Len(s) + 1
    \/ p = Len(s) /\ At(s, p) = NL

\* lazy (.+?) under DOTALL from q: the first end whose follower is a stop
RECURSIVE AbstractEnd(_, _)
AbstractEnd(s, e) ==
    IF AbstractStop(s, e + 1) THEN e ELSE AbstractEnd(s, e + 1)

\* the pattern of abstract_match tried at start position p
AbstractAt(s, p) ==
    LET a  == p + Len("(Submitter supplied)")
        w  == SkipSpaces(s, a)
        ks == {k \in 1..(w - a) : a + k <= Len(s)}
    IN  IF StartsWithAt(s, p, "(Submitter supplied)") /\ ks # {}
        THEN LET q == a + SetMax(ks)
             IN  Match(SubSeq(s, q, AbstractEnd(s, q)))
        ELSE NoMatch

\* re.search(r'\(Submitter supplied\)\s+(.+?)(?=Organism:|$)', entry_text, re.DOTALL)
abstract_match(entry_text) ==
    LET p == Leftmost({q \in 1..Len(entry_text) : AbstractAt(entry_text, q).matched})
    IN  IF p = 0 THEN NoMatch ELSE AbstractAt(entry_text, p)

\* the pattern \s*more\.\.\.\s*$ tried at start position p: only whitespace
\* may follow more... up to the end of the text
MoreAt(s, p) ==
    LET w == SkipSpaces(s, p)
        t == SkipSpaces(s, w + Len("more..."))
    IN  StartsWithAt(s, w, "more...") /\ t = Len(s) + 1

\* re.sub(r'\s*more\.\.\.\s*$', '', abstract): the leftmost match runs to the
\* end of the text and is replaced by nothing
remove_more(abstract) ==
    LET p == Leftmost({q \in 1..Len(abstract) : MoreAt(abstract, q)})
    IN  IF p = 0 THEN abstract ELSE SubSeq(abstract, 1, p - 1)

\* a marker, then \s*(.+?)$ under MULTILINE, the marker ending before a:
\* the greedy \s* gives characters back until a non-newline follows it, and
\* the lazy group then runs to the end of that line
RestOfLine(s, a) ==
    LET w  == SkipSpaces(s, a)
        ks == {k \in 0..(w - a) : a + k <= Len(s) /\ At(s, a + k) # NL}
    IN  IF ks = {}
        THEN NoMatch
        ELSE LET q == a + SetMax(ks)
             IN  Match(SubSeq(s, q, LineEnd(s, q)))

OrganismAt(s, p) ==
    IF StartsWithAt(s, p, "Organism:")
    THEN RestOfLine(s, p + Len("Organism:"))
    ELSE NoMatch

\* re.search(r'Organism:\s*(.+?)$', entry_text, re.MULTILINE)
organism_match(entry_text) ==
    LET p == Leftmost({q \in 1..Len(entry_text) : OrganismAt(entry_text, q).matched})
    IN  IF p = 0 THEN NoMatch ELSE OrganismAt(entry_text, p)

\* Platform[s]?: the optional s is tried first
PlatformAt(s, p) ==
    IF StartsWithAt(s, p, "Platforms:")
    THEN RestOfLine(s, p + Len("Platforms:"))
    ELSE IF StartsWithAt(s, p, "Platform:")
         THEN RestOfLine(s, p + Len("Platform:"))
         ELSE NoMatch

\* re.search(r'Platform[s]?:\s*(.+?)$', entry_text, re.MULTILINE)
platform_match(entry_text) ==
    LET p == Leftmost({q \in 1..Len(entry_text) : PlatformAt(entry_text, q).matched})
    IN  IF p = 0 THEN NoMatch ELSE PlatformAt(entry_text, p)

\* lazy .*? from a, then (ftp://[^\s]+): . does not match a newline (no
\* DOTALL), so the url starts on the line the marker ends on
RECURSIVE FtpFrom(_, _)
FtpFrom(s, j) ==
    IF j > Len(s)
    THEN NoMatch
    ELSE IF StartsWithAt(s, j, "ftp://") /\ SkipNonSpaces(s, j + 6) > j + 6
         THEN Match(SubSeq(s, j, SkipNonSpaces(s, j + 6) - 1))
         ELSE IF At(s, j) = NL THEN NoMatch ELSE FtpFrom(s, j + 1)

\* the pattern of ftp_match without its FTP download: marker
FtpAt_NoMarker(s, p) == FtpFrom(s, p)

FtpAt(s, p) ==
    IF StartsWithAt(s, p, "FTP download:")
    THEN FtpFrom(s, p + Len("FTP download:"))
    ELSE NoMatch

\* re.search(r'FTP download:.*?(ftp://[^\s]+)', entry_text)
ftp_match(entry_text) ==
    LET p == Leftmost({q \in 1..Len(entry_text) : FtpAt(entry_text, q).matched})
    IN  IF p = 0 THEN NoMatch ELSE FtpAt(entry_text, p)

AccessionAt(s, p) ==
    LET w == SkipSpaces(s, p + Len("Accession:"))
        d == SkipDigits(s, w + 3)
    IN  IF StartsWithAt(s, p, "Accession:") /\ StartsWithAt(s, w, "GSE") /\ d > w + 3
        THEN Match(SubSeq(s, w, d - 1))
        ELSE NoMatch

\* re.search(r'Accession:\s*(GSE\d+)', entry_text)
accession_match(entry_text) ==
    LET p == Leftmost({q \in 1..Len(entry_text) : AccessionAt(entry_text, q).matched})
    IN  IF p = 0 THEN NoMatch ELSE AccessionAt(entry_text, p)

IdAt(s, p) ==
    LET w == SkipSpaces(s, p + Len("ID:"))
        d == SkipDigits(s, w)
    IN  IF StartsWithAt(s, p, "ID:") /\ d > w
        THEN Match(SubSeq(s, w, d - 1))
        ELSE NoMatch

\* re.search(r'ID:\s*(\d+)', entry_text)
id_match(entry_text) ==
    LET p == Leftmost({q \in 1..Len(entry_text) : IdAt(entry_text, q).matched})
    IN  IF p = 0 THEN NoMatch ELSE IdAt(entry_text, p)

\* https?:// at w: the length of the scheme matched, 0 when neither matches
SchemeLen(s, w) ==
    IF StartsWithAt(s, w, "https://") THEN 8
    ELSE IF StartsWithAt(s, w, "http://") THEN 7 ELSE 0

SraAt(s, p) ==
    LET w == SkipSpaces(s, p + Len("SRA Run Selector:"))
        n == SchemeLen(s, w)
        e == SkipNonSpaces(s, w + n)
    IN  IF StartsWithAt(s, p, "SRA Run Selector:") /\ n > 0 /\ e > w + n
        THEN Match(SubSeq(s, w, e - 1))
        ELSE NoMatch

\* re.search(r'SRA Run Selector:\s*(https?://[^\s]+)', entry_text)
sra_match(entry_text) ==
    LET p == Leftmost({q \in 1..Len(entry_text) : SraAt(entry_text, q).matched})
    IN  IF p = 0 THEN NoMatch ELSE SraAt(entry_text, p)

parse_gds_entry(entry_text) ==
    [title     |-> GroupOrEmpty(title_match(entry_text)),
     abstract  |-> remove_more(GroupOrEmpty(abstract_match(entry_text))),
     organism  |-> GroupOrEmpty(organism_match(entry_text)),
     platform  |-> GroupOrEmpty(platform_match(entry_text)),
     ftp_url   |-> GroupOrEmpty(ftp_match(entry_text)),
     accession |-> GroupOrEmpty(accession_match(entry_text)),
     series_id |-> GroupOrEmpty(id_match(entry_text)),
     sra_url   |-> GroupOrEmpty(sra_match(entry_text))]

(***************************************************************************)
(* create_ris_entry                                                        *)
(***************************************************************************)
\* "\n".join(lines)
RECURSIVE JoinLines(_)
JoinLines(lines) ==
    IF lines = <<>> THEN ""
    ELSE IF Len(lines) = 1 THEN lines[1]
         ELSE lines[1] \o NL \o JoinLines(Tail(lines))

\* title_with_organism with the brackets appended unconditionally
TitleWithOrganism_Always(parsed_data) ==
    parsed_data.title \o " [" \o parsed_data.organism \o "]"

\* title_with_organism
TitleWithOrganism(parsed_data) ==
    IF parsed_data.organism # ""
    THEN parsed_data.title \o " [" \o parsed_data.organism \o "]"
    ELSE parsed_data.title

\* the append without its guard
LineIf_Always(tag, value) == <<tag \o value>>

\* ris_lines.append(f"<tag>  - {value}") if value
LineIf(tag, value) ==
    IF value # "" THEN <<tag \o value>> ELSE <<>>

\* ris_lines at the return statement
RisLines(parsed_data) ==
       <<"TY  - JOUR">>
    \o (IF parsed_data.title # ""
        THEN <<"TI  - " \o TitleWithOrganism(parsed_data)>>
        ELSE <<>>)
    \o LineIf("AU  - ", parsed_data.accession)
    \o LineIf("AU  - ", parsed_data.series_id)
    \o LineIf("AU  - ", parsed_data.platform)
    \o <<"JO  - Gene Expression Omnibus">>
    \o LineIf("DO  - ", parsed_data.ftp_url)
    \o LineIf("AB  - (Submitter supplied) ", parsed_data.abstract)
    \o LineIf("UR  - ", parsed_data.sra_url)
    \o <<"ER  - ", "">>

create_ris_entry(parsed_data) == JoinLines(RisLines(parsed_data))

(***************************************************************************)
(* parse_gds_file                                                          *)
(***************************************************************************)
\* (?=^\d+\.\s+) under MULTILINE matches (emptily) before position p
IsHeaderAt(s, p) ==
    LET d == SkipDigits(s, p)
    IN  /\ p = 1 \/ At(s, p - 1) = NL
        /\ d > p
        /\ At(s, d) = "."
        /\ IsSpace(At(s, d + 1))

\* re.split on the empty matches: the text before the first match, then one
\* piece from each match to the next
RECURSIVE SplitFrom(_, _, _)
SplitFrom(s, from, cuts) ==
    IF cuts = {}
    THEN <<SubSeq(s, from, Len(s))>>
    ELSE LET c == SetMin(cuts)
         IN  <<SubSeq(s, from, c - 1)>> \o SplitFrom(s, c, cuts \ {c})

re_split(s) == SplitFrom(s, 1, {p \in 1..Len(s) : IsHeaderAt(s, p)})

\* [e.strip() for e in entries if e.strip()]
StripAndFilter(pieces) ==
    SelectSeq([k \in DOMAIN pieces |-> strip(pieces[k])], LAMBDA e : e # "")

parse_gds_file(text) == StripAndFilter(re_split(text))

(***************************************************************************)
(* Inputs.                                                                 *)
(***************************************************************************)
RECURSIVE Concat(_)
Concat(chunks) ==
    IF chunks = <<>> THEN "" ELSE Head(chunks) \o Concat(Tail(chunks))

TextsOf(chunks, n) ==
    {Concat(cs) : cs \in UNION {[1..k -> chunks] : k \in 0..n}}

\* what an input file is made of
FileChunks == {"1. ", "2.", NL, "a", "ID:7", "(Submitter supplied) b"}

FileTexts == TextsOf(FileChunks, MaxFileChunks)

\* what an entry text is made of
EntryChunks ==
    {"1.", " ", NL, "a",
     "(Submitter supplied)", "more...", "Organism:", "Platform:", "Platforms:",
     "FTP download:", "ftp://a", "Accession:", "GSE", "ID:",
     "SRA Run Selector:", "http://a"}

\* the entry text of the round-trip scenario
Scenario ==
       "1. Sample Title" \o NL
    \o "Organism: Mus musculus" \o NL
    \o "(Submitter supplied) Some text more..." \o NL
    \o "Accession: GSE12345" \o NL
    \o "ID: 67890" \o NL
    \o "Platforms: GPL1" \o NL
    \o "FTP download: ftp://example.com/path" \o NL
    \o "SRA Run Selector: https://example.com/sra"

EntryTexts == TextsOf(EntryChunks, MaxEntryChunks) \cup {Scenario}

FieldNames ==
    {"title", "abstract", "organism", "platform", "ftp_url", "accession",
     "series_id", "sra_url"}

\* the values a field of a FieldSet given to create_ris_entry takes
FieldValues == {"", "a", "b" \o NL \o "c"}

FieldSets == [FieldNames -> FieldValues]

\* a local variable not yet assigned
Unset == [n \in FieldNames |-> ""]

(***************************************************************************)
(* main: read and split, convert each entry, write.                        *)
(***************************************************************************)
Init ==
    /\ pc = "start"
    /\ content \in FileTexts
    /\ entries = <<>>
    /\ i = 0
    /\ entry = ""
    /\ parsed = Unset
    /\ ris_lines = <<>>
    /\ ris_entry = ""
    /\ ris_entries = <<>>
    /\ output = ""

\* entries = parse_gds_file(input_file)
ParseFile ==
    /\ pc = "start"
    /\ entries' = parse_gds_file(content)
    /\ i' = 1
    /\ pc' = "loop"
    /\ UNCHANGED <<content, entry, parsed, ris_lines, ris_entry, ris_entries, output>>

\* one iteration of: for i, entry in enumerate(entries, 1)
ConvertEntry ==
    /\ pc = "loop"
    /\ i <= Len(entries)
    /\ entry' = entries[i]
    /\ parsed' = parse_gds_entry(entries[i])
    /\ ris_lines' = RisLines(parsed')
    /\ ris_entry' = create_ris_entry(parsed')
    /\ ris_entries' = Append(ris_entries, ris_entry')
    /\ i' = i + 1
    /\ UNCHANGED <<pc, content, entries, output>>

\* "\n".join(ris_entries) with the separator left out
JoinRecords_NoSeparator(records) == Concat(records)

\* "\n".join(ris_entries)
JoinRecords(records) == JoinLines(records)

\* f.write("\n".join(ris_entries))
WriteOutput ==
    /\ pc = "loop"
    /\ i > Len(entries)
    /\ output' = JoinRecords(ris_entries)
    /\ pc' = "done"
    /\ UNCHANGED <<content, entries, i, entry, parsed, ris_lines, ris_entry, ris_entries>>

Next == ParseFile \/ ConvertEntry \/ WriteOutput

Spec == Init /\ [][Next]_vars

(***************************************************************************)
(* parse_gds_entry and create_ris_entry applied to any entry text.         *)
(***************************************************************************)
InitExtract ==
    /\ pc = "entry"
    /\ entry \in EntryTexts
    /\ content = ""
    /\ entries = <<>>
    /\ i = 0
    /\ parsed = Unset
    /\ ris_lines = <<>>
    /\ ris_entry = ""
    /\ ris_entries = <<>>
    /\ output = ""

ApplyParse ==
    /\ pc = "entry"
    /\ parsed' = parse_gds_entry(entry)
    /\ pc' = "parsed"
    /\ UNCHANGED <<content, entries, i, entry, ris_lines, ris_entry, ris_entries, output>>

ApplyCreate ==
    /\ pc = "parsed"
    /\ ris_lines' = RisLines(parsed)
    /\ ris_entry' = create_ris_entry(parsed)
    /\ pc' = "formatted"
    /\ UNCHANGED <<content, entries, i, entry, parsed, ris_entries, output>>

NextExtract == ApplyParse \/ ApplyCreate

SpecExtract == InitExtract /\ [][NextExtract]_vars

(***************************************************************************)
(* create_ris_entry applied to any FieldSet.                               *)
(***************************************************************************)
InitFormat ==
    /\ pc = "parsed"
    /\ parsed \in FieldSets
    /\ entry = ""
    /\ content = ""
    /\ entries = <<>>
    /\ i = 0
    /\ ris_lines = <<>>
    /\ ris_entry = ""
    /\ ris_entries = <<>>
    /\ output = ""

NextFormat == ApplyCreate

SpecFormat == InitFormat /\ [][NextFormat]_vars

(***************************************************************************)
(* Vocabulary of the properties.                                           *)
(***************************************************************************)
Contains(s, lit) == \E p \in 1..Len(s) : StartsWithAt(s, p, lit)

Parsed == pc \in {"parsed", "formatted"}

Split == pc \in {"loop", "done"}

\* positions of the record headers of a file text
Headers(s) == {p \in 1..Len(s) : IsHeaderAt(s, p)}

\* the k-th smallest element of a set of positions
RECURSIVE Nth(_, _)
Nth(S, k) == IF k = 1 THEN SetMin(S) ELSE Nth(S \ {SetMin(S)}, k - 1)

\* the text from the k-th header up to, not including, the next one
HeaderSpan(s, k) ==
    LET hs == Headers(s)
    IN  SubSeq(s, Nth(hs, k),
               IF k < Cardinality(hs) THEN Nth(hs, k + 1) - 1 ELSE Len(s))

MarkerFree(s) ==
    \A m \in {"(Submitter supplied)", "Organism:", "Platform:", "Platforms:",
              "FTP download:", "Accession:", "ID:", "SRA Run Selector:"} :
        ~Contains(s, m)

\* the first line is <number>. followed by whitespace and then some text
HasTitleText(s) ==
    LET line == FirstLine(s)
        d    == SkipDigits(line, 1)
    IN  /\ d > 1
        /\ At(line, d) = "."
        /\ IsSpace(At(line, d + 1))
        /\ \E p \in (d + 2)..Len(line) : ~IsSpace(At(line, p))

\* the trimmed text between the first of the markers and the end of its line
SameLineValue(s, markers) ==
    LET at(p) == {m \in markers : StartsWithAt(s, p, m)}
        ps    == {p \in 1..Len(s) : at(p) # {}}
    IN  IF ps = {}
        THEN ""
        ELSE LET p   == SetMin(ps)
                 a   == p + Len(CHOOSE m \in at(p) : TRUE)
                 nls == {q \in a..Len(s) : At(s, q) = NL}
                 e   == IF nls = {} THEN Len(s) ELSE SetMin(nls) - 1
             IN  strip(SubSeq(s, a, e))

\* positions of an ftp:// that follows the first FTP download: marker
FtpAfterMarker(s) ==
    LET ms == {p \in 1..Len(s) : StartsWithAt(s, p, "FTP download:")}
    IN  IF ms = {}
        THEN {}
        ELSE {q \in (SetMin(ms) + Len("FTP download:"))..Len(s) :
                  StartsWithAt(s, q, "ftp://")}

CountLines(lines, l) == Cardinality({k \in DOMAIN lines : lines[k] = l})

AuLines(lines) == {k \in DOMAIN lines : StartsWithAt(lines[k], 1, "AU  - ")}

\* the position in the output file at which the k-th record starts
RECURSIVE RecordStart(_, _)
RecordStart(records, k) ==
    IF k = 1 THEN 1
    ELSE RecordStart(records, k - 1) + Len(records[k - 1]) + 1

\* the lines of the fixed order, each with the condition it is emitted under
Slots(f) ==
    <<[emit |-> TRUE,             line |-> "TY  - JOUR"],
      [emit |-> f.title # "",     line |-> "TI  - " \o f.title \o
                 (IF f.organism # "" THEN " [" \o f.organism \o "]" ELSE "")],
      [emit |-> f.accession # "", line |-> "AU  - " \o f.accession],
      [emit |-> f.series_id # "", line |-> "AU  - " \o f.series_id],
      [emit |-> f.platform # "",  line |-> "AU  - " \o f.platform],
      [emit |-> TRUE,             line |-> "JO  - Gene Expression Omnibus"],
      [emit |-> f.ftp_url # "",   line |-> "DO  - " \o f.ftp_url],
      [emit |-> f.abstract # "",  line |-> "AB  - (Submitter supplied) " \o f.abstract],
      [emit |-> f.sra_url # "",   line |-> "UR  - " \o f.sra_url],
      [emit |-> TRUE,             line |-> "ER  - "]>>

EmittedSlots(f) ==
    LET kept == SelectSeq(Slots(f), LAMBDA x : x.emit)
    IN  [k \in DOMAIN kept |-> kept[k].line]

(***************************************************************************)
(* Properties.                                                             *)
(***************************************************************************)
\* C1: parse_gds_entry on the round-trip scenario returns title "Sample
\* Title", organism "Mus musculus", abstract "Some text", accession
\* "GSE12345", series_id "67890", platform "GPL1", the ftp url and the SRA
\* url, and create_ris_entry emits the TI line with the organism in brackets,
\* the three AU lines in order, the DO line, the AB line "(Submitter
\* supplied) Some text" and the UR line.
C1_RoundTripScenario ==
    (entry = Scenario /\ Parsed) =>
        /\ parsed = [title     |-> "Sample Title",
                     abstract  |-> "Some text",
                     organism  |-> "Mus musculus",
                     platform  |-> "GPL1",
                     ftp_url   |-> "ftp://example.com/path",
                     accession |-> "GSE12345",
                     series_id |-> "67890",
                     sra_url   |-> "https://example.com/sra"]
        /\ pc = "formatted" =>
              ris_lines = <<"TY  - JOUR",
                            "TI  - Sample Title [Mus musculus]",
                            "AU  - GSE12345",
                            "AU  - 67890",
                            "AU  - GPL1",
                            "JO  - Gene Expression Omnibus",
                            "DO  - ftp://example.com/path",
                            "AB  - (Submitter supplied) Some text",
                            "UR  - https://example.com/sra",
                            "ER  - ",
                            "">>

\* C2: a file text with N >= 1 record headers is split into exactly N
\* entries, the k-th being the (trimmed) text from the k-th header up to the
\* next header; text before the first header belongs to no entry.
C2_OneEntryPerHeader ==
    (Split /\ Headers(content) # {}) =>
        /\ Len(entries) = Cardinality(Headers(content))
        /\ \A k \in 1..Len(entries) :
               k <= Cardinality(Headers(content)) =>
                   entries[k] = strip(HeaderSpan(content, k))

\* C3: a file text with no record header is split into no entry at all.
C3_NoHeaderNoEntry ==
    (Split /\ Headers(content) = {}) => entries = <<>>

\* C4: the output file holds one record per entry, in the order of the
\* entries, record k made from entry k alone; each record ends with its
\* terminator line and exactly one blank line stands between that line and
\* the type line of the next record.
C4_OutputRecords ==
    pc = "done" =>
        /\ Len(ris_entries) = Len(entries)
        /\ \A k \in 1..Len(entries) :
               /\ ris_entries[k] = create_ris_entry(parse_gds_entry(entries[k]))
               /\ LET first == RecordStart(ris_entries, k)
                      last  == first + Len(ris_entries[k]) - 1
                  IN  /\ SubSeq(output, first, last) = ris_entries[k]
                      /\ StartsWithAt(output, first, "TY  - JOUR" \o NL)
                      /\ StartsWithAt(output, last - Len("ER  - "), "ER  - " \o NL)
                      /\ IF k < Len(entries)
                         THEN /\ At(output, last + 1) = NL
                              /\ StartsWithAt(output, last + 2, "TY  - JOUR")
                         ELSE last = Len(output)

C4_TwoRecordsWritten ==
    /\ pc = "done"
    /\ Len(entries) = 2
    /\ Contains(entries[1], "ID:7")
    /\ ~Contains(entries[2], "ID:7")
    /\ Contains(ris_entries[1], "AU  - 7")
    /\ ~Contains(ris_entries[1], "AB  - ")
    /\ ~Contains(ris_entries[2], "AU  - ")
    /\ Contains(ris_entries[2], "AB  - (Submitter supplied) b")

\* C5: parse_gds_entry returns, for every entry text, a FieldSet with exactly
\* the eight keys, and each of abstract, organism, platform, ftp_url,
\* accession, series_id, sra_url is empty when its marker is not in the text.
C5_ExtractorTotal ==
    Parsed =>
        /\ DOMAIN parsed = FieldNames
        /\ parsed \in [FieldNames -> STRING]
        /\ ~Contains(entry, "(Submitter supplied)") => parsed.abstract = ""
        /\ ~Contains(entry, "Organism:") => parsed.organism = ""
        /\ (~Contains(entry, "Platform:") /\ ~Contains(entry, "Platforms:"))
               => parsed.platform = ""
        /\ ~Contains(entry, "FTP download:") => parsed.ftp_url = ""
        /\ ~Contains(entry, "Accession:") => parsed.accession = ""
        /\ ~Contains(entry, "ID:") => parsed.series_id = ""
        /\ ~Contains(entry, "SRA Run Selector:") => parsed.sra_url = ""

C5_UrlWithoutMarker ==
    /\ pc = "parsed"
    /\ Contains(entry, "ftp://a")
    /\ Contains(entry, "GSE1.")
    /\ MarkerFree(entry)
    /\ parsed.ftp_url = ""
    /\ parsed.accession = ""

\* C6: the lines create_ris_entry emits hold exactly one TY line, exactly one
\* ER line, and as many AU lines as there are non-empty fields among
\* accession, series_id and platform, each carrying one of those values.
C6_TypeTerminatorAuthors ==
    pc = "formatted" =>
        /\ CountLines(ris_lines, "TY  - JOUR") = 1
        /\ CountLines(ris_lines, "ER  - ") = 1
        /\ Cardinality(AuLines(ris_lines)) =
               Cardinality({n \in {"accession", "series_id", "platform"} :
                                parsed[n] # ""})
        /\ \A k \in AuLines(ris_lines) :
               \E n \in {"accession", "series_id", "platform"} :
                   parsed[n] # "" /\ ris_lines[k] = "AU  - " \o parsed[n]

C6_OneAuthorOfThree ==
    /\ pc = "formatted"
    /\ parsed.accession = ""
    /\ parsed.series_id # ""
    /\ parsed.platform = ""
    /\ Cardinality(AuLines(ris_lines)) = 1

\* C7: an entry text without any marker becomes a record of the type line,
\* the title line exactly when the first line has text after its number
\* prefix, the journal line and the terminator line, in that order.
C7_MinimalRecord ==
    (pc = "formatted" /\ MarkerFree(entry)) =>
        IF HasTitleText(entry)
        THEN /\ Len(ris_lines) = 5
             /\ ris_lines[1] = "TY  - JOUR"
             /\ StartsWithAt(ris_lines[2], 1, "TI  - ")
             /\ Len(ris_lines[2]) > Len("TI  - ")
             /\ ris_lines[3] = "JO  - Gene Expression Omnibus"
             /\ ris_lines[4] = "ER  - "
             /\ ris_lines[5] = ""
        ELSE ris_lines = <<"TY  - JOUR", "JO  - Gene Expression Omnibus", "ER  - ", "">>

C7_TitleOnlyRecord ==
    /\ pc = "formatted"
    /\ MarkerFree(entry)
    /\ HasTitleText(entry)
    /\ ris_lines[2] = "TI  - a"

\* C8: organism is the trimmed text between the first Organism: marker and
\* the end of that line, platform the trimmed text between the first
\* Platform: or Platforms: marker and the end of that line; neither holds
\* text of a later line.
C8_SameLineFields ==
    Parsed =>
        /\ parsed.organism = SameLineValue(entry, {"Organism:"})
        /\ parsed.platform = SameLineValue(entry, {"Platform:", "Platforms:"})

\* C9: when an ftp:// follows the FTP download: marker anywhere later in the
\* entry, on the same line or a later one, ftp_url is the first such
\* substring up to the next whitespace.
C9_FtpAnywhereAfterMarker ==
    (Parsed /\ FtpAfterMarker(entry) # {}) =>
        LET q == SetMin(FtpAfterMarker(entry))
        IN  parsed.ftp_url = SubSeq(entry, q, SkipNonSpaces(entry, q) - 1)

\* C10: the emitted lines are TY, TI, AU(accession), AU(series_id),
\* AU(platform), JO, DO, AB, UR, ER in this order, TY first and ER last
\* followed by one blank line; TY, JO, ER always, every other line exactly
\* when its field is non-empty; the organism is bracketed onto the TI line
\* exactly when title and organism are both non-empty.
C10_FixedLineOrder ==
    pc = "formatted" =>
        /\ ris_lines = EmittedSlots(parsed) \o <<"">>
        /\ StartsWithAt(ris_entry, 1, "TY  - JOUR" \o NL)
        /\ StartsWithAt(ris_entry, Len(ris_entry) - Len("ER  - "), "ER  - " \o NL)
        /\ Contains(ris_entry, " [") <=>
               \/ parsed.title # "" /\ parsed.organism # ""
               \/ \E n \in FieldNames : Contains(parsed[n], " [")

C10_OrganismWithoutTitle ==
    /\ pc = "formatted"
    /\ parsed.title = ""
    /\ parsed.organism # ""
    /\ parsed.accession # ""
    /\ parsed.abstract # ""
    /\ ris_lines[2] = "AU  - " \o parsed.accession

====
